---------------------------- MODULE Spec2Model ----------------------------
(***************************************************************************)
(* A model of the RFB server library in src/rfb.go: one connection         *)
(* (Conn.serve, the reader goroutine), its push worker                     *)
(* (Conn.pushFramesLoop), the host that feeds frames and drains events,    *)
(* and the pure functions compareImages / inRange / pushGenericLocked.     *)
(*                                                                         *)
(* Conventions.                                                            *)
(*  - Bytes are naturals 0..255, byte strings are sequences of bytes.      *)
(*  - A rectangle is [x0, y0, x1, y1] (image.Rectangle Min/Max).           *)
(*  - An image is [nil, b, px]: nil is the nil interface value, b the      *)
(*    bounds, px the set of pixels <<x, y>> whose colour is the foreground *)
(*    colour; every other pixel of the bounds has the background colour.   *)
(*    All coordinates are >= 0 (RFB coordinates are u16).                  *)
(*  - A panic in the reader goroutine is recovered by serve's deferred     *)
(*    function; a panic in any other goroutine is not recovered by         *)
(*    anything and ends the whole process (Go runtime semantics).          *)
(***************************************************************************)
EXTENDS Integers, Sequences, FiniteSets, TLC

\* ------------------------------------------------------------------ bounds

\* Commands the reader parses on one connection (specification Spec).
MaxCmds == 2
\* Handles the host sends into the frame sink on one connection.
MaxFeeds == 2
\* Pixel mutations (li.Img replaced under the write lock) by the host.
MaxMutations == 1
\* Input events the client sends on one connection (specification
\* SpecProtocol); more than EventCap, so that the event channel can fill.
MaxEvents == 18
\* Update requests the client sends on one connection (specification
\* SpecQueue): more than the MaxFeeds the push worker can answer, the one it
\* holds, the FbupcCap that fill the update queue and the one the reader
\* cannot enqueue.
MaxRequests == 133
\* Sockets the listener accepts (specification SpecAccept); more than
\* ConnsCap, so that the channel of new connections can fill.
MaxAccepts == 18
\* Messages in a client's command stream, and bytes the peer may leave unsent
\* at its end (specification SpecFraming).
MaxMsgs == 3
MaxCut == 2
\* The comparator's inputs (specification SpecCmp): the images span up to
\* MaxTiles sections in each direction, and the new image has up to MaxDiff
\* foreground pixels.
MaxTiles == 2
MaxDiff == 2
\* NewServer arguments used by the host.
ArgWidth == 2
ArgHeight == 2

\* ------------------------------------------------------- program constants

authNone == 1
statusOK == 0
encodingRaw == 0
cmdSetPixelFormat == 0
cmdSetEncodings == 2
cmdFramebufferUpdateRequest == 3
cmdKeyEvent == 4
cmdPointerEvent == 5
cmdClientCutText == 6
cmdFramebufferUpdate == 0
sectionSize == 64
\* make(chan FrameBufferUpdateRequest, 128)
FbupcCap == 128
\* make(chan *LockableImage, 16)
FeedCap == 16
\* make(chan interface{}, 16)
EventCap == 16
\* make(chan *Conn, 16)
ConnsCap == 16

\* "RFB 003.003\n", "RFB 003.007\n", "RFB 003.008\n" as ASCII bytes.
v3 == <<82, 70, 66, 32, 48, 48, 51, 46, 48, 48, 51, 10>>
v7 == <<82, 70, 66, 32, 48, 48, 51, 46, 48, 48, 55, 10>>
v8 == <<82, 70, 66, 32, 48, 48, 51, 46, 48, 48, 56, 10>>
\* "rfb-go"
serverName == <<114, 102, 98, 45, 103, 111>>

\* ------------------------------------------------------------- wire codec

RECURSIVE Pow2(_)
Pow2(k) == IF k = 0 THEN 1 ELSE 2 * Pow2(k - 1)

\* binary.Write(c.bw, binary.BigEndian, v) for an unsigned v of `width` bytes.
RECURSIVE BE(_, _)
BE(n, width) ==
    IF width = 0 THEN <<>> ELSE Append(BE(n \div 256, width - 1), n % 256)

\* Go's string comparison a >= b: lexicographic on bytes.
RECURSIVE StrGE(_, _)
StrGE(a, b) ==
    IF b = <<>> THEN TRUE
    ELSE IF a = <<>> THEN FALSE
    ELSE IF Head(a) # Head(b) THEN Head(a) > Head(b)
    ELSE StrGE(Tail(a), Tail(b))

\* NewServer: width and height are clamped to at least 1.
NewServer(width, height) ==
    [width  |-> IF width < 1 THEN 1 ELSE width,
     height |-> IF height < 1 THEN 1 ELSE height]

Server == NewServer(ArgWidth, ArgHeight)

\* ----------------------------------------------------------- pixel format

ZeroFormat ==
    [BPP |-> 0, Depth |-> 0, BigEndian |-> 0, TrueColour |-> 0,
     RedMax |-> 0, GreenMax |-> 0, BlueMax |-> 0,
     RedShift |-> 0, GreenShift |-> 0, BlueShift |-> 0]

\* The format serve installs before ServerInit.
DefaultFormat ==
    [BPP |-> 16, Depth |-> 16, BigEndian |-> 0, TrueColour |-> 1,
     RedMax |-> 31, GreenMax |-> 31, BlueMax |-> 31,
     RedShift |-> 10, GreenShift |-> 5, BlueShift |-> 0]

\* The 16-byte pixel-format record as written by ServerInit.
FormatBytes(f) ==
    <<f.BPP, f.Depth, f.BigEndian, f.TrueColour>>
    \o BE(f.RedMax, 2) \o BE(f.GreenMax, 2) \o BE(f.BlueMax, 2)
    \o <<f.RedShift, f.GreenShift, f.BlueShift>>

ServerInitBytes(f) ==
    BE(Server.width % 65536, 2) \o BE(Server.height % 65536, 2)
    \o FormatBytes(f) \o <<0, 0, 0>>
    \o BE(Len(serverName), 4) \o serverName

\* ----------------------------------------------------------------- images

\* image.Rect(x0, y0, x1, y1): a well-formed rectangle (Min <= Max).
Rect(x0, y0, x1, y1) ==
    [x0 |-> IF x0 > x1 THEN x1 ELSE x0, y0 |-> IF y0 > y1 THEN y1 ELSE y0,
     x1 |-> IF x0 > x1 THEN x0 ELSE x1, y1 |-> IF y0 > y1 THEN y0 ELSE y1]

Dx(r) == r.x1 - r.x0
Dy(r) == r.y1 - r.y0
InRect(p, r) == r.x0 <= p[1] /\ p[1] < r.x1 /\ r.y0 <= p[2] /\ p[2] < r.y1

NilImage == [nil |-> TRUE, b |-> Rect(0, 0, 0, 0), px |-> {}]
Image(b, px) == [nil |-> FALSE, b |-> b, px |-> px]
Bounds(img) == img.b

\* im.At(x, y): the colour (a palette index) of a pixel.
At(img, p) == IF p \in img.px THEN 1 ELSE 0

\* col.RGBA(): the 16-bit channels of a colour. Background is black;
\* foreground is RGBA{255, 128, 0, 255}, whose channels are c | c << 8.
RGBA16(col) == IF col = 0 THEN <<0, 0, 0>> ELSE <<65535, 32896, 0>>

minInt(a, b) == IF a < b THEN a ELSE b

\* The pixels of a set in scan order (row by row, left to right).
RECURSIVE ScanOrder(_)
ScanOrder(S) ==
    IF S = {} THEN <<>>
    ELSE LET p == CHOOSE q \in S :
                    \A r \in S : q[2] < r[2] \/ (q[2] = r[2] /\ q[1] <= r[1])
         IN  <<p>> \o ScanOrder(S \ {p})

\* The rows the inner loops of compareImages visit for the strip that starts
\* at sectionTop: "for y := sectionTop; y < bounds.Max.Y; y++".
ScanRows(sectionTop, bounds) == sectionTop .. (bounds.y1 - 1)

\* A variant of AlreadyChanged: the lookup never finds the section.
AlreadyChanged_never(sectionLeft, changedSections) == FALSE

\* Whether a mismatching pixel's section is skipped: the changedSections
\* lookup.
AlreadyChanged(sectionLeft, changedSections) == sectionLeft \in changedSections

\* The body of the two inner loops, folded over the mismatching pixels of the
\* strip in scan order (a pixel that matches has no effect on rc or on
\* changedSections).
RECURSIVE ScanStrip(_, _, _, _, _)
ScanStrip(pixels, sectionTop, bounds, changedSections, rc) ==
    IF pixels = <<>> THEN rc
    ELSE LET x == Head(pixels)[1]
             sectionLeft == x - (x % sectionSize)
             sectionRight == minInt(sectionLeft + sectionSize, bounds.x1)
             sectionBottom == minInt(sectionTop + sectionSize, bounds.y1)
         IN  IF AlreadyChanged(sectionLeft, changedSections)
             THEN ScanStrip(Tail(pixels), sectionTop, bounds,
                            changedSections, rc)
             ELSE ScanStrip(Tail(pixels), sectionTop, bounds,
                            changedSections \cup {sectionLeft},
                            Append(rc, Rect(sectionLeft, sectionTop,
                                            sectionRight, sectionBottom)))

\* The pixels at which the two images differ among the rows and columns the
\* loops visit.
Mismatches(oldImg, newImg, rows, bounds) ==
    {p \in oldImg.px \cup newImg.px :
        /\ p[2] \in rows
        /\ bounds.x0 <= p[1] /\ p[1] < bounds.x1
        /\ At(oldImg, p) # At(newImg, p)}

\* The outer loop: "for sectionTop := bounds.Min.Y; sectionTop <
\* bounds.Max.Y; sectionTop += sectionSize", changedSections fresh per strip.
RECURSIVE Strips(_, _, _, _, _)
Strips(sectionTop, bounds, oldImg, newImg, rc) ==
    IF sectionTop >= bounds.y1 THEN rc
    ELSE Strips(sectionTop + sectionSize, bounds, oldImg, newImg,
                ScanStrip(ScanOrder(Mismatches(oldImg, newImg,
                                               ScanRows(sectionTop, bounds),
                                               bounds)),
                          sectionTop, bounds, {}, rc))

\* compareImages(oldImg, newImg): [panic, rc].
compareImages(oldImg, newImg) ==
    IF oldImg.nil /\ newImg.nil
    THEN [panic |-> "can't compare two nil images", rc |-> <<>>]
    ELSE IF oldImg.nil
    THEN [panic |-> "", rc |-> <<Bounds(newImg)>>]
    ELSE IF newImg.nil
    THEN [panic |-> "", rc |-> <<>>]
    ELSE IF Bounds(newImg) # Bounds(oldImg)
    THEN [panic |-> "images have different sizes", rc |-> <<>>]
    ELSE [panic |-> "",
          rc |-> Strips(Bounds(newImg).y0, Bounds(newImg), oldImg, newImg,
                        <<>>)]

\* ------------------------------------------------------------- transcoder

\* A uint32 word is the set of its one bits. ToBits takes a value below 2^16
\* (a quantized channel).
ToBits(n) == {i \in 0..15 : (n \div Pow2(i)) % 2 = 1}
Shl(bits, s) == {i + s : i \in bits} \cap (0..31)

RECURSIVE SumPow2(_, _)
SumPow2(bits, base) ==
    IF bits = {} THEN 0
    ELSE LET i == CHOOSE j \in bits : TRUE
         IN  Pow2(i - base) + SumPow2(bits \ {i}, base)

\* Byte k (0 = least significant) of a word.
ByteOf(bits, k) == SumPow2(bits \cap ((8 * k)..(8 * k + 7)), 8 * k)

\* inRange(v, max): supported maxes are 0x1f and 0x03; anything else panics.
inRangeOK(max) == max \in {31, 3}
\* A variant of inRange: every supported channel keeps five bits.
inRange_5bits(v, max) == v \div Pow2(16 - 5)
inRange(v, max) ==
    IF max = 31 THEN v \div Pow2(16 - 5)
    ELSE IF max = 3 THEN v \div Pow2(16 - 2)
    ELSE 0

\* One iteration of pushGenericLocked's loops after col.RGBA(), for the
\* 16-bit channels c16 = <<r16, g16, b16>>: [panic, bytes].
PackChannels(f, c16) ==
    IF ~(inRangeOK(f.RedMax) /\ inRangeOK(f.GreenMax) /\ inRangeOK(f.BlueMax))
    THEN [panic |-> "todo; max value", bytes |-> <<>>]
    ELSE IF f.BPP \notin {8, 16, 32}
    THEN [panic |-> "TODO: BPP", bytes |-> <<>>]
    ELSE LET u32 == Shl(ToBits(inRange(c16[1], f.RedMax)), f.RedShift)
                    \cup Shl(ToBits(inRange(c16[2], f.GreenMax)), f.GreenShift)
                    \cup Shl(ToBits(inRange(c16[3], f.BlueMax)), f.BlueShift)
             n == f.BPP \div 8
             little == [k \in 1..n |-> ByteOf(u32, k - 1)]
         IN  [panic |-> "",
              bytes |-> IF f.BigEndian # 0
                        THEN [k \in 1..n |-> little[n + 1 - k]]
                        ELSE little]

\* One iteration of pushGenericLocked's loops: [panic, bytes].
PackPixel(f, col) == PackChannels(f, RGBA16(col))

\* The pixels of a rectangle in the order the loops visit them.
RectPixels(rect) ==
    [i \in 1..(Dx(rect) * Dy(rect)) |->
        <<rect.x0 + ((i - 1) % Dx(rect)), rect.y0 + ((i - 1) \div Dx(rect))>>]

RECURSIVE PackPixels(_, _, _)
PackPixels(im, pixels, f) ==
    IF pixels = <<>> THEN [panic |-> "", bytes |-> <<>>]
    ELSE LET one == PackPixel(f, At(im, Head(pixels)))
             rest == PackPixels(im, Tail(pixels), f)
         IN  IF one.panic # "" THEN one
             ELSE IF rest.panic # "" THEN rest
             ELSE [panic |-> "", bytes |-> one.bytes \o rest.bytes]

\* pushGenericLocked(im, rect) under format f: [panic, bytes]. im.At on a nil
\* image is a nil dereference, a run-time panic.
pushGenericLocked(im, rect, f) ==
    IF Dx(rect) * Dy(rect) = 0 THEN [panic |-> "", bytes |-> <<>>]
    ELSE IF im.nil THEN [panic |-> "nil dereference", bytes |-> <<>>]
    ELSE PackPixels(im, RectPixels(rect), f)

\* ------------------------------------------------------------------ state

VARIABLES
    procPanic,      \* "" while the process runs; else the uncaught panic
    rpc,            \* reader (serve) position
    ver,            \* the client's version line
    hs,             \* socket I/O of the handshake, in order
    rerr,           \* the panic value serve's deferred function recovered
    dstack,         \* deferred calls of serve still to run
    ncmd,           \* commands parsed so far
    format,         \* c.format
    gotFirstFrame,  \* c.gotFirstFrame
    rreq,           \* the request handleUpdateRequest is sending
    fbupc,          \* c.fbupc: buffered update requests
    event,          \* c.event: buffered input events
    feed,           \* c.feed: buffered image handles
    closes,         \* close() calls made on each per-connection channel
    sockClosed,     \* c.c.Close() was called
    ppc,            \* push worker position
    ur,             \* the request the push worker is servicing
    li,             \* the handle the push worker took for it
    rects,          \* rectangles still to encode
    msg,            \* the FramebufferUpdate being written
    last,           \* c.last
    sent,           \* history: the updates pushImage completed
    started,        \* history: requests the push worker dequeued
    taken,          \* history: the handles taken, each with its request
    used,           \* history: c.format as read during the update under way
    nworkers,       \* history: how often "go c.pushFramesLoop()" ran
    liImg,          \* li.Img of the host's LockableImage
    liLock,         \* who holds its lock: "free", "host" or "push"
    nfeed,          \* handles the host sent
    nmut,           \* mutations the host made
    hostLast,       \* history: seq of the last event the host received
    fnArgs,         \* the arguments of a pure function under test
    fnResult,       \* what it returned
    apc,            \* acceptor (Server.Serve) position
    naccept,        \* sockets ln.Accept has returned
    conns,          \* s.conns: buffered connections
    serving,        \* connections whose serve goroutine was started
    hostConns,      \* history: the connections the host received
    dropped,        \* history: connections accepted while s.conns was full
    stream,         \* the bytes the client sends after ClientInit, then closes
    nread,          \* how many of them the reader has consumed
    cmdlog          \* history: each command byte read, with its offset

readerVars == <<rpc, ver, hs, rerr, dstack, ncmd, format, gotFirstFrame, rreq>>
chanVars == <<fbupc, event, feed, closes, sockClosed>>
pushVars == <<ppc, ur, li, rects, msg, last, sent, started, taken, used,
             nworkers>>
hostVars == <<liImg, liLock, nfeed, nmut, hostLast>>
fnVars == <<fnArgs, fnResult>>
acceptVars == <<apc, naccept, conns, serving, hostConns, dropped>>
frameVars == <<stream, nread, cmdlog>>
vars == <<procPanic, readerVars, chanVars, pushVars, hostVars, fnVars,
          acceptVars, frameVars>>

Running == procPanic = ""

\* ----------------------------------------------------------------- inputs

\* What a read from the socket returns: a value, or an error (EOF).
Reads(S) == [eof : {FALSE}, v : S] \cup {[eof |-> TRUE, v |-> <<>>]}
ByteReads(S) == [eof : {FALSE}, v : S] \cup {[eof |-> TRUE, v |-> 0]}

\* Version lines a client may send: the three accepted ones, two well-formed
\* ones the server does not speak ("RFB 003.005\n", "RFB 003.009\n") and an
\* empty line.
VersionLines ==
    {v3, v7, v8,
     <<82, 70, 66, 32, 48, 48, 51, 46, 48, 48, 53, 10>>,
     <<82, 70, 66, 32, 48, 48, 51, 46, 48, 48, 57, 10>>,
     <<10>>}

SecurityTypes == {0, 1, 2}
SharedFlags == {0, 1}
UnknownCommands == {1, cmdClientCutText, 127, 255}

\* Formats a client may request with SetPixelFormat: a BGR233 8-bit one, a
\* colour-mapped one, one with an 8-bit channel and one with 24 bits per
\* pixel.
ClientFormats ==
    {[DefaultFormat EXCEPT !.BPP = 8, !.Depth = 8, !.RedMax = 3,
                           !.GreenMax = 3, !.BlueMax = 3, !.RedShift = 0,
                           !.GreenShift = 2, !.BlueShift = 4],
     [DefaultFormat EXCEPT !.TrueColour = 0],
     [DefaultFormat EXCEPT !.RedMax = 255],
     [DefaultFormat EXCEPT !.BPP = 24]}

\* FramebufferUpdateRequest records a client may send: incremental and
\* non-incremental for the whole 2x2 frame, non-incremental for a part of it.
ClientRequests ==
    {[IncrementalFlag |-> 1, X |-> 0, Y |-> 0, Width |-> 2, Height |-> 2],
     [IncrementalFlag |-> 0, X |-> 0, Y |-> 0, Width |-> 2, Height |-> 2],
     [IncrementalFlag |-> 0, X |-> 1, Y |-> 1, Width |-> 1, Height |-> 1]}

NoRequest ==
    [IncrementalFlag |-> 0, X |-> 0, Y |-> 0, Width |-> 0, Height |-> 0,
     seq |-> 0]

KeyEvents == {[type |-> "KeyEvent", data |-> <<1, 65>>]}
PointerEvents == {[type |-> "PointerEvent", data |-> <<7, 16, 32>>]}

\* Images the host draws: a blank 2x2 frame, the same with pixel (1, 0)
\* changed, and a blank 1x1 frame.
ImgA == Image(Rect(0, 0, 2, 2), {})
ImgB == Image(Rect(0, 0, 2, 2), {<<1, 0>>})
ImgC == Image(Rect(0, 0, 1, 1), {})
\* The frames the host draws, in order, starting again after the last.
HostFrames == <<ImgA, ImgB, ImgC>>

NoHandle == [nil |-> TRUE, seq |-> 0]

\* ------------------------------------------------------------------- Init

\* The state after newConn and "go conn.serve()"; the host has made its
\* LockableImage.
ConnInit ==
    /\ procPanic = ""
    /\ rpc = "start" /\ ver = <<>> /\ hs = <<>> /\ rerr = "" /\ dstack = <<>>
    /\ ncmd = 0 /\ format = ZeroFormat /\ gotFirstFrame = FALSE
    /\ rreq = NoRequest
    /\ fbupc = <<>> /\ event = <<>> /\ feed = <<>>
    /\ closes = [event |-> 0, closec |-> 0, fbupc |-> 0]
    /\ sockClosed = FALSE
    /\ ppc = "none" /\ ur = NoRequest /\ li = NoHandle /\ rects = <<>>
    /\ msg = <<>> /\ last = NilImage /\ sent = <<>> /\ started = 0
    /\ taken = <<>> /\ used = <<>> /\ nworkers = 0
    /\ liImg = ImgA /\ liLock = "free" /\ nfeed = 0 /\ nmut = 0
    /\ hostLast = 0

NoCall == <<>>

\* The state after NewServer and "go s.Serve(ln)".
AcceptInit ==
    /\ apc = "accept" /\ naccept = 0 /\ conns = <<>> /\ serving = {}
    /\ hostConns = <<>> /\ dropped = {}

\* No command bytes are modelled: the handlers take their input parsed.
FrameInit == stream = <<>> /\ nread = 0 /\ cmdlog = <<>>

Init == ConnInit /\ AcceptInit /\ FrameInit /\ fnArgs = NoCall /\ fnResult = NoCall

\* --------------------------------------------------------- reader: serve

W(bytes) == [op |-> "w", bytes |-> bytes]
R(bytes) == [op |-> "r", bytes |-> bytes]
Eof == [op |-> "eof", bytes |-> <<>>]

\* Variants of DeferOrder: the calls run in the order they were deferred
\* (socket last); the event channel is closed a second time.
DeferOrder_forward == <<"fbupc", "closec", "event", "sock">>
DeferOrder_twice == <<"event", "closec", "fbupc", "event", "sock">>

\* The deferred calls of serve in the order they run, last deferred first,
\* after the recover function: close(c.event), close(c.closec),
\* close(c.fbupc), c.c.Close().
DeferOrder == <<"event", "closec", "fbupc", "sock">>

\* A variant of Fail: the error is logged and the reader carries on.
Fail_continue(what) ==
    /\ rpc' = rpc
    /\ rerr' = what
    /\ dstack' = dstack

\* c.failf in the reader goroutine (or a failed read, which calls it): the
\* panic unwinds to serve's defers; the recover function, deferred last,
\* runs first and takes the panic value.
Fail(what) ==
    /\ rpc' = "unwind"
    /\ rerr' = what
    /\ dstack' = DeferOrder

\* The version switch: "case v3, v7, v8".
AcceptedVersion(line) == line \in {v3, v7, v8}

\* A variant of SecurityResult: the result is sent from 3.7 on.
SecurityResult_v7(line) ==
    IF StrGE(line, v7) THEN <<W(BE(statusOK, 4))>> ELSE <<>>

\* "if ver >= v8 { c.w(uint32(statusOK)); c.flush() }"
SecurityResult(line) ==
    IF StrGE(line, v8) THEN <<W(BE(statusOK, 4))>> ELSE <<>>

\* c.bw.WriteString("RFB 003.008\n"); c.flush()
ServeStart ==
    /\ Running /\ rpc = "start"
    /\ hs' = Append(hs, W(v8))
    /\ rpc' = "version"
    /\ UNCHANGED <<fnVars, acceptVars, frameVars, nworkers, used, procPanic, ver, rerr, dstack, ncmd, format, gotFirstFrame,
                   rreq, chanVars, pushVars, hostVars>>

\* ReadSlice('\n'), the version switch, and the security handshake up to the
\* next read.
ReadVersion(r) ==
    /\ Running /\ rpc = "version"
    /\ IF r.eof
       THEN /\ hs' = Append(hs, Eof)
            /\ Fail("reading from client")
            /\ ver' = ver
       ELSE /\ ver' = r.v
            /\ IF ~AcceptedVersion(r.v)
               THEN /\ hs' = Append(hs, R(r.v))
                    /\ Fail("bogus client-requested security type")
               ELSE IF StrGE(r.v, v7)
               THEN /\ hs' = hs \o <<R(r.v), W(<<1, 1>>)>>
                    /\ rpc' = "sectype"
                    /\ UNCHANGED <<rerr, dstack>>
               ELSE /\ hs' = hs \o <<R(r.v), W(BE(authNone, 4))>>
                              \o SecurityResult(r.v)
                    /\ rpc' = "shared"
                    /\ UNCHANGED <<rerr, dstack>>
    /\ UNCHANGED <<fnVars, acceptVars, frameVars, nworkers, used, procPanic, ncmd, format, gotFirstFrame, rreq, chanVars,
                   pushVars, hostVars>>

\* readByte("6.1.2:client requested security-type") and SecurityResult.
ReadSecurityType(r) ==
    /\ Running /\ rpc = "sectype"
    /\ IF r.eof
       THEN /\ hs' = Append(hs, Eof)
            /\ Fail("reading from client")
       ELSE IF r.v # authNone
       THEN /\ hs' = Append(hs, R(<<r.v>>))
            /\ Fail("client wanted auth type, not None")
       ELSE /\ hs' = Append(hs, R(<<r.v>>)) \o SecurityResult(ver)
            /\ rpc' = "shared"
            /\ UNCHANGED <<rerr, dstack>>
    /\ UNCHANGED <<fnVars, acceptVars, frameVars, nworkers, used, procPanic, ver, ncmd, format, gotFirstFrame, rreq,
                   chanVars, pushVars, hostVars>>

\* ClientInit (the shared flag), then the default format and ServerInit.
ReadClientInit(r) ==
    /\ Running /\ rpc = "shared"
    /\ IF r.eof
       THEN /\ hs' = Append(hs, Eof)
            /\ Fail("reading from client")
            /\ format' = format
       ELSE /\ format' = DefaultFormat
            /\ hs' = hs \o <<R(<<r.v>>), W(ServerInitBytes(DefaultFormat))>>
            /\ rpc' = "cmd"
            /\ UNCHANGED <<rerr, dstack>>
    /\ UNCHANGED <<fnVars, acceptVars, frameVars, nworkers, used, procPanic, ver, ncmd, gotFirstFrame, rreq, chanVars,
                   pushVars, hostVars>>

\* ------------------------------------------------- reader: command loop

\* readByte("6.4:client-server-packet-type") fails: the peer closed.
readCommandEOF ==
    /\ Running /\ rpc = "cmd"
    /\ Fail("reading from client")
    /\ UNCHANGED <<fnVars, acceptVars, nworkers, used, procPanic, ver, hs, ncmd, format, gotFirstFrame, rreq,
                   chanVars, pushVars, hostVars>>

ReadCommandEOF == readCommandEOF /\ UNCHANGED frameVars

\* The default branch of the command switch.
unsupportedCommand(cmd) ==
    /\ Running /\ rpc = "cmd"
    /\ cmd \notin {cmdSetPixelFormat, cmdSetEncodings,
                   cmdFramebufferUpdateRequest, cmdPointerEvent, cmdKeyEvent}
    /\ Fail("unsupported command type")
    /\ UNCHANGED <<fnVars, acceptVars, nworkers, used, procPanic, ver, hs, ncmd, format, gotFirstFrame, rreq,
                   chanVars, pushVars, hostVars>>

UnknownCommand(cmd) == unsupportedCommand(cmd) /\ UNCHANGED frameVars

\* handleSetPixelFormat: ok is whether all 19 bytes arrive (3 pad bytes, the
\* 13 bytes of the ten fields, 3 pad bytes).
handleSetPixelFormat(ok, pf) ==
    /\ Running /\ rpc = "cmd"
    /\ IF ok
       THEN format' = pf /\ ncmd' = ncmd + 1 /\ UNCHANGED <<rpc, rerr, dstack>>
       ELSE format' = format /\ ncmd' = ncmd /\ Fail("reading from client")
    /\ UNCHANGED <<fnVars, acceptVars, nworkers, used, procPanic, ver, hs, gotFirstFrame, rreq, chanVars,
                   pushVars, hostVars>>

HandleSetPixelFormat(ok, pf) == handleSetPixelFormat(ok, pf) /\ UNCHANGED frameVars

\* handleSetEncodings: the pad byte, the count and that many encoding types
\* are read and logged.
handleSetEncodings(ok, numEncodings) ==
    /\ Running /\ rpc = "cmd"
    /\ IF ok
       THEN ncmd' = ncmd + 1 /\ UNCHANGED <<rpc, rerr, dstack>>
       ELSE ncmd' = ncmd /\ Fail("reading from client")
    /\ UNCHANGED <<fnVars, acceptVars, nworkers, used, procPanic, ver, hs, format, gotFirstFrame, rreq, chanVars,
                   pushVars, hostVars>>

HandleSetEncodings(ok, numEncodings) == handleSetEncodings(ok, numEncodings) /\ UNCHANGED frameVars

\* A parsed request, tagged with its position among the parsed commands.
Tagged(req, n) ==
    [IncrementalFlag |-> req.IncrementalFlag, X |-> req.X, Y |-> req.Y,
     Width |-> req.Width, Height |-> req.Height, seq |-> n]

\* A variant of FirstRequest: every request counts as the first.
FirstRequest_always(got) == TRUE

\* "if !c.gotFirstFrame": whether handleUpdateRequest spawns the worker.
FirstRequest(got) == ~got

\* handleUpdateRequest: the push worker is spawned on the first call, before
\* the request is read; "c.fbupc <- req" completes at once when the channel
\* has room, and otherwise the reader waits in the send.
handleUpdateRequest(ok, req) ==
    /\ Running /\ rpc = "cmd"
    /\ gotFirstFrame' = TRUE
    /\ ppc' = IF FirstRequest(gotFirstFrame) THEN "idle" ELSE ppc
    /\ nworkers' = nworkers + (IF FirstRequest(gotFirstFrame) THEN 1 ELSE 0)
    /\ IF ~ok
       THEN /\ Fail("reading from client")
            /\ UNCHANGED <<ncmd, rreq, fbupc>>
       ELSE /\ ncmd' = ncmd + 1
            /\ UNCHANGED <<rerr, dstack>>
            /\ IF Len(fbupc) < FbupcCap
               THEN /\ fbupc' = Append(fbupc, Tagged(req, ncmd + 1))
                    /\ UNCHANGED <<rpc, rreq>>
               ELSE /\ rreq' = Tagged(req, ncmd + 1)
                    /\ rpc' = "sendreq"
                    /\ fbupc' = fbupc
    /\ UNCHANGED <<fnVars, acceptVars, used, procPanic, ver, hs, format, event,
                   feed, closes, sockClosed, ur, li, rects, msg, last, sent,
                   started, taken, hostVars>>

HandleUpdateRequest(ok, req) == handleUpdateRequest(ok, req) /\ UNCHANGED frameVars

\* The reader waiting in "c.fbupc <- req" gets room.
SendRequest ==
    /\ Running /\ rpc = "sendreq"
    /\ Len(fbupc) < FbupcCap
    /\ fbupc' = Append(fbupc, rreq)
    /\ rreq' = NoRequest
    /\ rpc' = "cmd"
    /\ UNCHANGED <<fnVars, acceptVars, frameVars, nworkers, used, procPanic, ver, hs, rerr, dstack, ncmd, format,
                   gotFirstFrame, event, feed, closes, sockClosed, pushVars,
                   hostVars>>

\* A variant of TrySend: a full channel drops its oldest event.
TrySend_overwrite(ch, ev) ==
    IF Len(ch) < EventCap THEN Append(ch, ev) ELSE Append(Tail(ch), ev)

\* The non-blocking send of handleKeyEvent / handlePointerEvent:
\* "select { case c.event <- req: default: }".
TrySend(ch, ev) == IF Len(ch) < EventCap THEN Append(ch, ev) ELSE ch

handleEvent(ok, ev) ==
    /\ Running /\ rpc = "cmd"
    /\ IF ok
       THEN /\ event' = TrySend(event, [type |-> ev.type, data |-> ev.data,
                                        seq |-> ncmd + 1])
            /\ ncmd' = ncmd + 1
            /\ UNCHANGED <<rpc, rerr, dstack>>
       ELSE /\ event' = event
            /\ ncmd' = ncmd
            /\ Fail("reading from client")
    /\ UNCHANGED <<fnVars, acceptVars, nworkers, used, procPanic, ver, hs, format, gotFirstFrame, rreq, fbupc,
                   feed, closes, sockClosed, pushVars, hostVars>>

HandleEvent(ok, ev) == handleEvent(ok, ev) /\ UNCHANGED frameVars

\* handleKeyEvent: down flag, two pad bytes, key.
HandleKeyEvent(ok, ev) == ev \in KeyEvents /\ HandleEvent(ok, ev)

\* handlePointerEvent: button mask, x, y.
HandlePointerEvent(ok, ev) == ev \in PointerEvents /\ HandleEvent(ok, ev)

\* ------------------------------------------------------ reader: teardown

\* One deferred call of serve. A close of a closed channel is a run-time
\* panic raised after the recover function has run: nothing recovers it.
RunDeferred ==
    /\ Running /\ rpc = "unwind"
    /\ LET d == Head(dstack)
           chan == d \in {"event", "closec", "fbupc"}
       IN  /\ IF chan /\ closes[d] > 0
              THEN procPanic' = "close of closed channel"
              ELSE procPanic' = procPanic
           /\ closes' = IF chan /\ closes[d] = 0
                        THEN [closes EXCEPT ![d] = 1] ELSE closes
           /\ sockClosed' = (sockClosed \/ d = "sock")
    /\ dstack' = Tail(dstack)
    /\ rpc' = IF Tail(dstack) = <<>> THEN "done" ELSE "unwind"
    /\ UNCHANGED <<fnVars, acceptVars, frameVars, nworkers, used, ver, hs, rerr, ncmd, format, gotFirstFrame, rreq, fbupc,
                   event, feed, pushVars, hostVars>>

\* ------------------------------------------------------------ push worker

\* A panic in the push worker's goroutine: pushImage's and pushFrame's
\* deferred unlocks run, nothing recovers, and the process exits.
\* A variant of CanLock: the lock is granted whoever holds it.
CanLock_always(lock) == TRUE

\* li.Lock() returns only when nobody holds the handle's lock.
CanLock(lock) == lock = "free"

Crash(what) ==
    /\ procPanic' = what
    /\ liLock' = IF liLock = "push" THEN "free" ELSE liLock

\* A variant of PushRecv: the newest buffered request is taken.
PushRecv_newest ==
    /\ Running /\ ppc = "idle"
    /\ fbupc # <<>>
    /\ ur' = fbupc[Len(fbupc)]
    /\ fbupc' = SubSeq(fbupc, 1, Len(fbupc) - 1)
    /\ started' = started + 1
    /\ ppc' = "feed"
    /\ UNCHANGED <<fnVars, acceptVars, frameVars, nworkers, used, procPanic, readerVars, event, feed, closes, sockClosed,
                   li, rects, msg, last, sent, taken, hostVars>>

\* pushFramesLoop: "case ur, ok := <-c.fbupc" with a request buffered.
PushRecv ==
    /\ Running /\ ppc = "idle"
    /\ fbupc # <<>>
    /\ ur' = Head(fbupc)
    /\ fbupc' = Tail(fbupc)
    /\ started' = started + 1
    /\ ppc' = "feed"
    /\ UNCHANGED <<fnVars, acceptVars, frameVars, nworkers, used, procPanic, readerVars, event, feed, closes, sockClosed,
                   li, rects, msg, last, sent, taken, hostVars>>

\* pushFramesLoop: the receive on the closed, drained channel; return.
PushExit ==
    /\ Running /\ ppc = "idle"
    /\ fbupc = <<>> /\ closes.fbupc > 0
    /\ ppc' = "exited"
    /\ UNCHANGED <<fnVars, acceptVars, frameVars, nworkers, used, procPanic, readerVars, chanVars, ur, li, rects, msg, last,
                   sent, started, taken, hostVars>>

\* pushFrame: "li := <-c.feed; if li == nil { return }".
PushTake ==
    /\ Running /\ ppc = "feed"
    /\ feed # <<>>
    /\ feed' = Tail(feed)
    /\ taken' = Append(taken, [handle |-> Head(feed).seq, req |-> ur.seq,
                                nil |-> Head(feed).nil,
                                sockClosed |-> sockClosed])
    /\ IF Head(feed).nil
       THEN ppc' = "idle" /\ li' = NoHandle /\ ur' = NoRequest
       ELSE ppc' = "lock" /\ li' = Head(feed) /\ ur' = ur
    /\ UNCHANGED <<fnVars, acceptVars, frameVars, nworkers, used, procPanic, readerVars, fbupc, event, closes, sockClosed,
                   rects, msg, last, sent, started, hostVars>>

\* ur.incremental()
Incremental(req) == req.IncrementalFlag # 0

\* A variant of ComputeRects: a non-incremental request gets the rectangle it
\* asked for.
ComputeRects_requested(req, img, lastImg) ==
    IF Incremental(req) THEN compareImages(img, lastImg)
    ELSE IF img.nil THEN [panic |-> "nil dereference", rc |-> <<>>]
    ELSE [panic |-> "",
          rc |-> <<Rect(req.X, req.Y, req.X + req.Width, req.Y + req.Height)>>]

\* The rectangle list of pushImage: [panic, rc].
\*   if ur.incremental() { rects = compareImages(li.Img, lastImg) }
\*   else { rects = append(rects, li.Img.Bounds()) }
ComputeRects(req, img, lastImg) ==
    IF Incremental(req) THEN compareImages(img, lastImg)
    ELSE IF img.nil THEN [panic |-> "nil dereference", rc |-> <<>>]
    ELSE [panic |-> "", rc |-> <<Bounds(img)>>]

\* pushFrame's c.mu.Lock and pushImage from li.Lock to the true-colour check.
PushImageStart ==
    /\ Running /\ ppc = "lock"
    /\ CanLock(liLock)
    /\ LET r == ComputeRects(ur, liImg, last)
       IN  IF r.panic # ""
           THEN /\ Crash(r.panic)
                /\ UNCHANGED <<ppc, rects, msg, used>>
           ELSE /\ msg' = [type |-> cmdFramebufferUpdate,
                           nrects |-> Len(r.rc) % 65536, rects |-> <<>>]
                /\ used' = <<format>>
                /\ IF format.TrueColour = 0
                   THEN /\ Crash("only true-colour supported")
                        /\ UNCHANGED <<ppc, rects>>
                   ELSE /\ liLock' = "push"
                        /\ rects' = r.rc
                        /\ ppc' = "rects"
                        /\ UNCHANGED procPanic
    /\ UNCHANGED <<fnVars, acceptVars, frameVars, nworkers, readerVars, chanVars, ur, li, last, sent,
                   started, taken, liImg, nfeed, nmut, hostLast>>

\* One iteration of "for _, rect := range rects": the rectangle header and
\* pushGenericLocked under the format c.format holds at that moment.
PushRect ==
    /\ Running /\ ppc = "rects"
    /\ rects # <<>>
    /\ LET rect == Head(rects)
           enc == pushGenericLocked(liImg, rect, format)
       IN  IF enc.panic # ""
           THEN /\ Crash(enc.panic)
                /\ UNCHANGED <<rects, msg>>
           ELSE /\ msg' = [msg EXCEPT !.rects = Append(@,
                              [x |-> rect.x0 % 65536, y |-> rect.y0 % 65536,
                               w |-> Dx(rect) % 65536, h |-> Dy(rect) % 65536,
                               encoding |-> encodingRaw, pix |-> enc.bytes])]
                /\ rects' = Tail(rects)
                /\ UNCHANGED <<procPanic, liLock>>
    /\ used' = Append(used, format)
    /\ UNCHANGED <<fnVars, acceptVars, frameVars, nworkers, readerVars, chanVars, ppc, ur, li, last,
                   sent, started, taken, liImg, nfeed, nmut, hostLast>>

\* c.flush(); c.last = li.Img; the deferred li.Unlock and c.mu.Unlock; back
\* to the select of pushFramesLoop.
PushImageEnd ==
    /\ Running /\ ppc = "rects"
    /\ rects = <<>>
    /\ sent' = Append(sent, [req |-> ur, handle |-> li.seq,
                             lastNil |-> last.nil, img |-> liImg,
                             msg |-> msg, sockClosed |-> sockClosed])
    /\ last' = liImg
    /\ liLock' = "free"
    /\ ppc' = "idle" /\ ur' = NoRequest /\ li' = NoHandle /\ msg' = <<>>
    /\ used' = <<>>
    /\ UNCHANGED <<fnVars, acceptVars, frameVars, nworkers, procPanic, readerVars, chanVars, rects,
                   started, taken, liImg, nfeed, nmut, hostLast>>

\* ------------------------------------------------------------------ host

\* "feed <- li" (or a nil handle, "no change") while the sink has room.
HostFeed(isNil) ==
    /\ Running
    /\ nfeed < MaxFeeds
    /\ Len(feed) < FeedCap
    /\ feed' = Append(feed, [nil |-> isNil, seq |-> nfeed + 1])
    /\ nfeed' = nfeed + 1
    /\ UNCHANGED <<fnVars, acceptVars, frameVars, nworkers, used, procPanic, readerVars, fbupc, event, closes, sockClosed,
                   pushVars, liImg, liLock, nmut, hostLast>>

\* li.Lock() by the host.
HostLock ==
    /\ Running
    /\ nmut < MaxMutations
    /\ CanLock(liLock)
    /\ liLock' = "host"
    /\ UNCHANGED <<fnVars, acceptVars, frameVars, nworkers, used, procPanic, readerVars, chanVars, pushVars, liImg, nfeed,
                   nmut, hostLast>>

\* The host's mutation under the lock (its next frame) and li.Unlock().
HostMutate ==
    /\ Running
    /\ liLock = "host"
    /\ liImg' = HostFrames[((nmut + 1) % Len(HostFrames)) + 1]
    /\ liLock' = "free"
    /\ nmut' = nmut + 1
    /\ UNCHANGED <<fnVars, acceptVars, frameVars, nworkers, used, procPanic, readerVars, chanVars, pushVars, nfeed,
                   hostLast>>

\* "for e := range c.Event": one event received.
HostRecvEvent ==
    /\ Running
    /\ event # <<>>
    /\ hostLast' = Head(event).seq
    /\ event' = Tail(event)
    /\ UNCHANGED <<fnVars, acceptVars, frameVars, nworkers, used, procPanic, readerVars, fbupc, feed, closes, sockClosed,
                   pushVars, liImg, liLock, nfeed, nmut>>

\* ---------------------------------------------------------- specification

\* The pipeline: a client that speaks 3.8, sets formats and encodings and
\* asks for updates; the host feeds frames and redraws.
Next ==
    \/ ServeStart
    \/ \E r \in Reads({v8}) : ReadVersion(r)
    \/ \E r \in ByteReads({authNone}) : ReadSecurityType(r)
    \/ \E r \in ByteReads({1}) : ReadClientInit(r)
    \/ ncmd < MaxCmds /\ \E cmd \in UnknownCommands : UnknownCommand(cmd)
    \/ ncmd < MaxCmds /\ \E ok \in BOOLEAN, pf \in ClientFormats :
                            HandleSetPixelFormat(ok, pf)
    \/ ncmd < MaxCmds /\ \E ok \in BOOLEAN, n \in {0, 2} :
                            HandleSetEncodings(ok, n)
    \/ ncmd < MaxCmds /\ \E ok \in BOOLEAN, req \in ClientRequests :
                            HandleUpdateRequest(ok, req)
    \/ ReadCommandEOF
    \/ RunDeferred
    \/ PushRecv
    \/ PushExit
    \/ PushTake
    \/ PushImageStart
    \/ PushRect
    \/ PushImageEnd
    \/ \E isNil \in BOOLEAN : HostFeed(isNil)
    \/ HostLock
    \/ HostMutate

Spec == Init /\ [][Next]_vars

\* The protocol: a client that speaks any version, sends key and pointer
\* events in turn, or a command the server does not know, or hangs up; the
\* host drains the event stream.
NextProtocol ==
    \/ ServeStart
    \/ \E r \in Reads(VersionLines) : ReadVersion(r)
    \/ \E r \in ByteReads(SecurityTypes) : ReadSecurityType(r)
    \/ \E r \in ByteReads(SharedFlags) : ReadClientInit(r)
    \/ ncmd < MaxEvents /\ \E cmd \in UnknownCommands : UnknownCommand(cmd)
    \/ ncmd < MaxEvents /\ ncmd % 2 = 0
          /\ \E ok \in BOOLEAN, ev \in KeyEvents : HandleKeyEvent(ok, ev)
    \/ ncmd < MaxEvents /\ ncmd % 2 = 1
          /\ \E ok \in BOOLEAN, ev \in PointerEvents : HandlePointerEvent(ok, ev)
    \/ ReadCommandEOF
    \/ RunDeferred
    \/ HostRecvEvent

SpecProtocol == Init /\ [][NextProtocol]_vars

\* The update queue: a 3.8 client that only asks for updates of the whole
\* frame and then hangs up; the host feeds frames, or stops doing so.
Reader ==
    \/ ServeStart
    \/ \E r \in Reads({v8}) : ReadVersion(r)
    \/ \E r \in ByteReads({authNone}) : ReadSecurityType(r)
    \/ \E r \in ByteReads({1}) : ReadClientInit(r)
    \/ ncmd < MaxRequests
          /\ \E req \in {q \in ClientRequests : ~Incremental(q) /\ q.X = 0} :
                HandleUpdateRequest(TRUE, req)
    \/ SendRequest
    \/ ReadCommandEOF
    \/ RunDeferred

Worker ==
    \/ PushRecv
    \/ PushExit
    \/ PushTake
    \/ PushImageStart
    \/ PushRect
    \/ PushImageEnd

NextQueue ==
    \/ Reader
    \/ Worker
    \/ HostFeed(FALSE)

\* PushRect can be taken: it is in the rectangle loop with a rectangle left.
\* Every PushRect step changes the state (it shortens rects, or ends the
\* process).
PushRectEnabled == Running /\ ppc = "rects" /\ rects # <<>>

\* Weak fairness of the push worker, whose steps exclude one another; for
\* PushRect it is written out with PushRectEnabled as its enabling
\* condition.
WorkerFair ==
    /\ WF_vars(PushRecv \/ PushExit \/ PushTake \/ PushImageStart
                \/ PushImageEnd)
    /\ ([]<>(~PushRectEnabled) \/ []<><<PushRect>>_vars)

\* The Go scheduler runs every goroutine that can take a step, and a read
\* from the socket returns once the peer has sent or has closed; the host is
\* under no obligation to feed.
SpecQueue == Init /\ [][NextQueue]_vars /\ WF_vars(Reader) /\ WorkerFair

\* ------------------------------------------- the command loop, in bytes

\* The bytes not yet read.
Unread == SubSeq(stream, nread + 1, Len(stream))

\* binary.Read of an unsigned big-endian integer.
RECURSIVE FromBE(_)
FromBE(bytes) ==
    IF bytes = <<>> THEN 0
    ELSE 256 * FromBE(SubSeq(bytes, 1, Len(bytes) - 1)) + bytes[Len(bytes)]

\* A variant of readPadding: no byte is consumed.
readPadding_none(at, size) == at

\* c.readPadding(what, size): size calls of readByte. at is the offset in the
\* handler's input before, the result the offset after.
readPadding(at, size) == at + size

\* The reads of one handler: buf is its input, at the offset where the reads
\* start, widths the sizes of the values read one after another. ok is
\* whether all of them arrive; v the values; next the offset after them.
RECURSIVE Offsets(_, _)
Offsets(at, widths) ==
    IF widths = <<>> THEN <<>>
    ELSE <<at>> \o Offsets(at + Head(widths), Tail(widths))
RECURSIVE Total(_)
Total(widths) == IF widths = <<>> THEN 0 ELSE Head(widths) + Total(Tail(widths))
ReadAll(buf, at, widths) ==
    LET next == at + Total(widths)
        ok == Len(buf) >= next
        offs == Offsets(at, widths)
    IN  [ok |-> ok, next |-> next,
         v |-> IF ok
               THEN [k \in 1..Len(widths) |->
                       FromBE(SubSeq(buf, offs[k] + 1, offs[k] + widths[k]))]
               ELSE <<>>]

\* The sizes of PixelFormat's fields as binary.Read takes them: four uint8,
\* three uint16, three uint8.
PixelFormatWidths == <<1, 1, 1, 1, 2, 2, 2, 1, 1, 1>>

\* The reads of handleSetPixelFormat on the bytes after the command byte:
\* [ok, n, pf], n being the number of bytes consumed.
ParseSetPixelFormat(buf) ==
    LET r == ReadAll(buf, readPadding(0, 3), PixelFormatWidths)
        n == readPadding(r.next, 3)
        ok == r.ok /\ Len(buf) >= n
    IN  [ok |-> ok, n |-> n,
         pf |-> IF ok
                THEN [BPP |-> r.v[1], Depth |-> r.v[2], BigEndian |-> r.v[3],
                      TrueColour |-> r.v[4], RedMax |-> r.v[5],
                      GreenMax |-> r.v[6], BlueMax |-> r.v[7],
                      RedShift |-> r.v[8], GreenShift |-> r.v[9],
                      BlueShift |-> r.v[10]]
                ELSE ZeroFormat]

\* handleSetEncodings: a pad byte, the uint16 count, count int32 values.
ParseSetEncodings(buf) ==
    LET r == ReadAll(buf, readPadding(0, 1), <<2>>)
        n == IF r.ok THEN r.next + 4 * r.v[1] ELSE r.next
        ok == r.ok /\ Len(buf) >= n
    IN  [ok |-> ok, n |-> n, numEncodings |-> IF ok THEN r.v[1] ELSE 0]

\* handleUpdateRequest: uint8 flag, four uint16.
ParseUpdateRequest(buf) ==
    LET r == ReadAll(buf, 0, <<1, 2, 2, 2, 2>>)
    IN  [ok |-> r.ok, n |-> r.next,
         req |-> IF r.ok
                 THEN [IncrementalFlag |-> r.v[1], X |-> r.v[2], Y |-> r.v[3],
                       Width |-> r.v[4], Height |-> r.v[5]]
                 ELSE [IncrementalFlag |-> 0, X |-> 0, Y |-> 0, Width |-> 0,
                       Height |-> 0]]

\* handleKeyEvent: uint8 down flag, two pad bytes, uint32 key.
ParseKeyEvent(buf) ==
    LET d == ReadAll(buf, 0, <<1>>)
        k == ReadAll(buf, readPadding(d.next, 2), <<4>>)
    IN  [ok |-> k.ok, n |-> k.next,
         ev |-> [type |-> "KeyEvent",
                 data |-> IF k.ok THEN <<d.v[1], k.v[1]>> ELSE <<>>]]

\* handlePointerEvent: uint8 mask, uint16 x, uint16 y.
ParsePointerEvent(buf) ==
    LET r == ReadAll(buf, 0, <<1, 2, 2>>)
    IN  [ok |-> r.ok, n |-> r.next,
         ev |-> [type |-> "PointerEvent", data |-> r.v]]

\* The position after a handler: behind its bytes, or at the end of what the
\* peer sent when a read failed.
After(p) == IF p.ok THEN nread + 1 + p.n ELSE Len(stream)

\* The reader's position after the handler of cmd, and the history: the
\* command byte, its offset, and whether its handler returned.
Step(cmd, ok, next) ==
    /\ nread' = next
    /\ cmdlog' = Append(cmdlog, [cmd |-> cmd, at |-> nread, ok |-> ok])

\* One turn of serve's loop on the bytes of the stream: the command byte is
\* read and the handler it selects reads its own bytes.
ServeCommand ==
    /\ Running /\ rpc = "cmd"
    /\ stream' = stream
    /\ IF Unread = <<>>
       THEN readCommandEOF /\ UNCHANGED <<nread, cmdlog>>
       ELSE LET cmd == Head(Unread)
                buf == Tail(Unread)
            IN  CASE cmd = cmdSetPixelFormat ->
                     LET p == ParseSetPixelFormat(buf)
                     IN  handleSetPixelFormat(p.ok, p.pf)
                         /\ Step(cmd, p.ok, After(p))
                [] cmd = cmdSetEncodings ->
                     LET p == ParseSetEncodings(buf)
                     IN  handleSetEncodings(p.ok, p.numEncodings)
                         /\ Step(cmd, p.ok, After(p))
                [] cmd = cmdFramebufferUpdateRequest ->
                     LET p == ParseUpdateRequest(buf)
                     IN  handleUpdateRequest(p.ok, p.req)
                         /\ Step(cmd, p.ok, After(p))
                [] cmd = cmdPointerEvent ->
                     LET p == ParsePointerEvent(buf)
                     IN  handleEvent(p.ok, p.ev) /\ Step(cmd, p.ok, After(p))
                [] cmd = cmdKeyEvent ->
                     LET p == ParseKeyEvent(buf)
                     IN  handleEvent(p.ok, p.ev) /\ Step(cmd, p.ok, After(p))
                [] OTHER ->
                     unsupportedCommand(cmd)
                     /\ Step(cmd, FALSE, nread + 1)

\* The pixel formats a client names in SetPixelFormat: the default one and a
\* big-endian 8-bit one.
FramingFormats ==
    {DefaultFormat,
     [DefaultFormat EXCEPT !.BPP = 8, !.Depth = 6, !.BigEndian = 1,
                           !.RedMax = 3, !.GreenMax = 3, !.BlueMax = 3,
                           !.RedShift = 4, !.GreenShift = 2, !.BlueShift = 0]}

\* The messages a client sends: SetPixelFormat (RFB 6.4.1: type, 3 bytes of
\* padding, the pixel format with its own 3 bytes of padding), SetEncodings
\* with one encoding, an update request, a key event, a pointer event, and a
\* message type the server does not know.
ClientMessages ==
    {<<cmdSetPixelFormat, 0, 0, 0>> \o FormatBytes(f) \o <<0, 0, 0>> :
        f \in FramingFormats}
    \cup {<<cmdSetEncodings, 0, 0, 1, 0, 0, 0, encodingRaw>>,
          <<cmdFramebufferUpdateRequest, 1, 0, 0, 0, 0, 0, 2, 0, 2>>,
          <<cmdKeyEvent, 1, 0, 0, 0, 0, 0, 65>>,
          <<cmdPointerEvent, 7, 0, 16, 0, 32>>,
          <<127>>}

RECURSIVE MessageRuns(_)
MessageRuns(n) ==
    IF n = 0 THEN {<<>>}
    ELSE MessageRuns(n - 1)
         \cup {s \o m : s \in MessageRuns(n - 1), m \in ClientMessages}

\* What arrives before the peer closes: up to MaxMsgs messages, the last one
\* possibly short of its last bytes.
ClientStreams ==
    UNION {{SubSeq(s, 1, Len(s) - c) : c \in 0..minInt(MaxCut, Len(s))} :
              s \in MessageRuns(MaxMsgs)}

InitFraming ==
    /\ ConnInit /\ AcceptInit
    /\ fnArgs = NoCall /\ fnResult = NoCall
    /\ stream \in ClientStreams /\ nread = 0 /\ cmdlog = <<>>

NextFraming ==
    \/ ServeStart
    \/ ReadVersion([eof |-> FALSE, v |-> v8])
    \/ ReadSecurityType([eof |-> FALSE, v |-> authNone])
    \/ ReadClientInit([eof |-> FALSE, v |-> 1])
    \/ ServeCommand
    \/ RunDeferred

SpecFraming == InitFraming /\ [][NextFraming]_vars

\* ---------------------------------------------------------- the acceptor

\* A variant of Deliver: the send waits for nothing and always succeeds.
Deliver_always(ch, conn) == Append(ch, conn)

\* "select { case s.conns <- conn: default: }"
Deliver(ch, conn) == IF Len(ch) < ConnsCap THEN Append(ch, conn) ELSE ch

\* ln.Accept() returns a socket, or an error that ends Serve; newConn and
\* the non-blocking send of the connection, numbered in the order accepted.
Accept(ok) ==
    /\ Running /\ apc = "accept"
    /\ IF ok
       THEN /\ naccept' = naccept + 1
            /\ conns' = Deliver(conns, naccept + 1)
            /\ dropped' = IF Len(conns) >= ConnsCap
                          THEN dropped \cup {naccept + 1} ELSE dropped
            /\ apc' = "go"
       ELSE /\ apc' = "returned"
            /\ UNCHANGED <<naccept, conns, dropped>>
    /\ UNCHANGED <<procPanic, readerVars, chanVars, pushVars, hostVars, frameVars, fnVars,
                   serving, hostConns>>

\* "go conn.serve()", and back to ln.Accept().
GoServe ==
    /\ Running /\ apc = "go"
    /\ serving' = serving \cup {naccept}
    /\ apc' = "accept"
    /\ UNCHANGED <<procPanic, readerVars, chanVars, pushVars, hostVars, frameVars, fnVars,
                   naccept, conns, hostConns, dropped>>

\* "for c := range s.Conns": the host receives a connection.
HostRecvConn ==
    /\ Running
    /\ conns # <<>>
    /\ hostConns' = Append(hostConns, Head(conns))
    /\ conns' = Tail(conns)
    /\ UNCHANGED <<procPanic, readerVars, chanVars, pushVars, hostVars, frameVars, fnVars,
                   apc, naccept, serving, dropped>>

NextAccept ==
    \/ naccept < MaxAccepts /\ Accept(TRUE)
    \/ Accept(FALSE)
    \/ GoServe
    \/ HostRecvConn

SpecAccept == Init /\ [][NextAccept]_vars

\* ------------------------------------------------- the slow path, alone

\* Shifts a client may name: fields that fit 8, 16 and 32 bits, fields that
\* overlap, and fields beyond the word.
PackShifts == {0, 2, 5, 10, 27}
\* 16-bit channel values: 0x0000, 0xAAAA, 0xFFFF.
PackLevels == {0, 43690, 65535}

\* The truecolour formats pushGenericLocked accepts.
PackFormats ==
    {[BPP |-> bpp, Depth |-> bpp, BigEndian |-> e, TrueColour |-> 1,
      RedMax |-> rm, GreenMax |-> gm, BlueMax |-> bm,
      RedShift |-> rs, GreenShift |-> gs, BlueShift |-> bs] :
        bpp \in {8, 16, 32}, e \in {0, 1},
        rm \in {31, 3}, gm \in {31, 3}, bm \in {31, 3},
        rs \in PackShifts, gs \in PackShifts, bs \in PackShifts}

InitPack ==
    /\ ConnInit /\ AcceptInit /\ FrameInit
    /\ \E f \in PackFormats : \E r16 \in PackLevels, g16 \in PackLevels,
                                  b16 \in PackLevels :
          fnArgs = [f |-> f, c16 |-> <<r16, g16, b16>>]
    /\ fnResult = NoCall

Pack ==
    /\ fnResult = NoCall
    /\ fnResult' = PackChannels(fnArgs.f, fnArgs.c16)
    /\ UNCHANGED <<procPanic, readerVars, chanVars, pushVars, hostVars, frameVars,
                   acceptVars, fnArgs>>

NextPack == Pack

SpecPack == InitPack /\ [][NextPack]_vars

\* ------------------------------------------------- compareImages, alone

\* The sets of at most k elements of P.
RECURSIVE SubsetsUpTo(_, _)
SubsetsUpTo(P, k) ==
    IF k = 0 THEN {{}}
    ELSE LET S == SubsetsUpTo(P, k - 1)
         IN  S \cup {t \cup {p} : t \in S, p \in P}

\* Image bounds: smaller than a section, one pixel more than the sections
\* before the last, whole sections, a single column, and an origin that is
\* not (0, 0).
CmpBounds ==
    LET full == sectionSize * MaxTiles
        over == sectionSize * (MaxTiles - 1) + 1
    IN  {Rect(0, 0, 4, 4), Rect(0, 0, over, over), Rect(0, 0, full, full),
         Rect(0, 0, 1, full), Rect(3, 5, 3 + over, 5 + over)}

\* Pixels at the first and last column and row of every section.
CmpPoints(b) ==
    LET offs == {k * sectionSize + d : k \in 0..(MaxTiles - 1),
                                       d \in {0, sectionSize - 1}}
    IN  {p \in {<<b.x0 + dx, b.y0 + dy>> : dx \in offs, dy \in offs} :
            InRect(p, b)}

\* The new image, and the old images it is compared with: none, one of other
\* bounds, a blank one, one with a foreground pixel at the origin.
CmpNewImages ==
    {NilImage} \cup
    UNION {{Image(b, px) : px \in SubsetsUpTo(CmpPoints(b), MaxDiff)} :
              b \in CmpBounds}

CmpOldImages(new) ==
    {NilImage, Image(Rect(0, 0, 2, 2), {}), Image(new.b, {}),
     Image(new.b, {<<new.b.x0, new.b.y0>>} \cap CmpPoints(new.b))}

InitCmp ==
    /\ ConnInit /\ AcceptInit /\ FrameInit
    /\ \E new \in CmpNewImages : \E old \in CmpOldImages(new) :
          fnArgs = [oldImg |-> old, newImg |-> new]
    /\ fnResult = NoCall

Compare ==
    /\ fnResult = NoCall
    /\ fnResult' = compareImages(fnArgs.oldImg, fnArgs.newImg)
    /\ UNCHANGED <<procPanic, readerVars, chanVars, pushVars, hostVars, frameVars,
                   acceptVars, fnArgs>>

NextCmp == Compare

SpecCmp == InitCmp /\ [][NextCmp]_vars

\* ------------------------------------------------------------ properties

IsPrefix(a, b) == Len(a) <= Len(b) /\ a = SubSeq(b, 1, Len(a))
Range(f) == {f[i] : i \in DOMAIN f}

\* ---- C1: the handshake

\* The socket I/O of a whole handshake with a client that sends the version
\* line `line`, the security type `sec` (3.7 and 3.8 only) and the shared
\* flag `shared`; it stops at the read of a line or type the server refuses.
HandshakeOf(line, sec, shared) ==
    LET greet == <<W(v8), R(line)>>
        types == <<W(<<1, 1>>), R(<<sec>>)>>
        init == <<R(<<shared>>), W(ServerInitBytes(DefaultFormat))>>
    IN  IF line = v3 THEN greet \o <<W(<<0, 0, 0, 1>>)>> \o init
        ELSE IF line = v7
        THEN greet \o types \o (IF sec = 1 THEN init ELSE <<>>)
        ELSE IF line = v8
        THEN greet \o types
             \o (IF sec = 1 THEN <<W(<<0, 0, 0, 0>>)>> \o init ELSE <<>>)
        ELSE greet

Agreed(line, sec) == line \in {v3, v7, v8} /\ (line = v3 \/ sec = 1)

\* The I/O so far, without the failed read that ended it.
HsDone ==
    IF hs # <<>> /\ hs[Len(hs)] = Eof THEN SubSeq(hs, 1, Len(hs) - 1) ELSE hs

\* C1: the handshake follows the sequence of the version the client asked
\* for: "RFB 003.008\n" is written before anything is read; 3.3 gets the u32
\* 1 and no SecurityResult; 3.7 gets 01 01, its type is read, and no
\* SecurityResult; 3.8 gets 01 01, its type is read, then the u32 0; then the
\* shared flag is read and only then ServerInit is written. Another version
\* line, or a type other than 1, ends the connection before ServerInit.
C1_Handshake ==
    \E line \in VersionLines, sec \in SecurityTypes, shared \in SharedFlags :
        LET full == HandshakeOf(line, sec, shared)
        IN  /\ IsPrefix(HsDone, full)
            /\ rpc = "start" => hs = <<>>
            /\ rpc = "version" => hs = <<W(v8)>>
            /\ rpc = "sectype" => hs = SubSeq(full, 1, 3) /\ line \in {v7, v8}
            /\ rpc = "shared" =>
                  hs = SubSeq(full, 1, Len(full) - 2) /\ Agreed(line, sec)
            /\ rpc = "cmd" => hs = full /\ Agreed(line, sec)
            /\ (HsDone = full /\ ~Agreed(line, sec)) =>
                  rpc \in {"unwind", "done"}
            /\ W(ServerInitBytes(DefaultFormat)) \in Range(hs) =>
                  hs = full /\ Agreed(line, sec)

\* A 3.8 handshake ran to its end.
C1_Witness == rpc = "cmd" /\ ver = v8 /\ Len(hs) = 7

\* ---- C2: protocol errors and the process

\* C2: no protocol error aborts the process: whatever the client sends and
\* the host feeds, the process keeps running (only the connection ends).
C2_ProcessSurvives == procPanic = ""

\* ---- C3: the order of the teardown

\* C3 as stated: the update queue is closed first, then the close signal,
\* then the event stream, so the event stream is never closed while one of
\* the other two is open.
C3_QueueFirst ==
    /\ closes.closec > 0 => closes.fbupc > 0
    /\ closes.event > 0 => (closes.closec > 0 /\ closes.fbupc > 0)

\* C3, as the code does it: the event stream is closed first, then the close
\* signal, then the update queue, and the socket last.
C3_EventFirst ==
    /\ closes.closec > 0 => closes.event > 0
    /\ closes.fbupc > 0 => closes.closec > 0
    /\ sockClosed => closes.fbupc > 0
    /\ rpc = "done" => sockClosed

\* The host can see the event stream closed while the other two are open.
C3_Witness == closes.event > 0 /\ closes.closec = 0 /\ closes.fbupc = 0

\* ---- C4: unknown commands

\* C4: a command byte other than 0, 2, 3, 4, 5 ends the connection: the
\* reader unwinds, at the end of which the socket and the event stream are
\* closed, and nothing more is read or parsed on the connection.
C4_UnknownCommandFatal ==
    /\ [](rerr = "unsupported command type" =>
            /\ rpc \in {"unwind", "done"}
            /\ rpc = "done" => (sockClosed /\ closes.event = 1))
    /\ [][rerr = "unsupported command type" =>
            (ncmd' = ncmd /\ hs' = hs /\ rerr' = rerr /\ rpc' # "cmd")]_vars

\* An unknown command arrived after some events, and the teardown is over.
C4_Witness == rerr = "unsupported command type" /\ rpc = "done" /\ ncmd > 0

\* ---- C5: the event stream is closed once

\* C5: on every path out of serve the event stream is closed exactly once,
\* and only at termination; nothing is sent on it once it is closed; no
\* channel of the connection is closed twice.
C5_ClosedOnce ==
    /\ [](/\ \A ch \in DOMAIN closes : closes[ch] <= 1
          /\ procPanic # "close of closed channel"
          /\ rpc = "done" => closes.event = 1
          /\ closes.event > 0 => rpc \in {"unwind", "done"})
    /\ [][closes.event > 0 =>
            (event' = event \/ (event # <<>> /\ event' = Tail(event)))]_vars

\* The teardown is over on a connection that had parsed events, some of them
\* still buffered.
C5_Witness == rpc = "done" /\ closes.event = 1 /\ ncmd > 0 /\ event # <<>>

\* ---- C6: event delivery

\* The event parsed as command number n: key events and pointer events
\* alternate.
ParsedEvent(n) ==
    LET ev == IF n % 2 = 1 THEN CHOOSE e \in KeyEvents : TRUE
                           ELSE CHOOSE e \in PointerEvents : TRUE
    IN  [type |-> ev.type, data |-> ev.data, seq |-> n]

\* C6: an event parsed while the channel holds fewer than 16 is appended,
\* one parsed while it holds 16 is discarded, and in both cases the reader
\* goes on to the next command; the channel holds, and the host receives,
\* parsed events in the order of their arrival.
C6_EventDelivery ==
    /\ [](/\ Len(event) <= 16
          /\ \A i \in 1..Len(event) :
                /\ event[i] = ParsedEvent(event[i].seq)
                /\ event[i].seq \in (hostLast + 1)..ncmd
                /\ i > 1 => event[i - 1].seq < event[i].seq)
    /\ [][/\ ncmd' = ncmd + 1 =>
                /\ rpc' = "cmd"
                /\ event' = IF Len(event) < 16
                            THEN Append(event, ParsedEvent(ncmd + 1))
                            ELSE event
          /\ hostLast' # hostLast =>
                (hostLast' > hostLast /\ hostLast' = Head(event).seq)]_vars

\* Eighteen events were parsed and none received: sixteen are buffered, two
\* were discarded.
C6_Witness == Len(event) = 16 /\ ncmd > 17 /\ hostLast = 0

\* ---- C7: requests and handles

\* The requests in the order the push worker takes them: those it has taken
\* a handle for, the one it is waiting for a handle for, those buffered.
RequestOrder ==
    [i \in 1..Len(taken) |-> taken[i].req]
    \o (IF ppc = "feed" THEN <<ur.seq>> ELSE <<>>)
    \o [i \in 1..Len(fbupc) |-> fbupc[i].seq]

InParseOrder ==
    /\ \A i, j \in 1..Len(RequestOrder) :
          i < j => RequestOrder[i] < RequestOrder[j]
    /\ \A k \in 1..Len(taken) : taken[k].handle = k
    /\ \A k \in 1..Len(sent) : sent[k].req.seq \in Range(RequestOrder)
    /\ \A i, j \in 1..Len(sent) : i < j => sent[i].req.seq < sent[j].req.seq

\* C7 as stated: requests are serviced in the order they were parsed, the
\* k-th handle is used for the k-th of them, and at all times as many handles
\* were taken as requests were started.
C7_HandlesEqualStarted == InParseOrder /\ Len(taken) = started

\* C7, as the code does it: the same, except that while the push worker waits
\* on the frame sink for the request it has started, one handle fewer was
\* taken than requests were started.
C7_HandlesFollowStarted ==
    /\ InParseOrder
    /\ Len(taken) = started - (IF ppc = "feed" THEN 1 ELSE 0)

\* The second request was started after the first took its handle, and waits
\* for its own.
C7_Witness == ppc = "feed" /\ started = 2 /\ Len(taken) = 1

\* ---- C8: the first frame

\* C8: an incremental request serviced while nothing was sent yet (c.last is
\* nil), with a handle whose image is not nil, is answered with one
\* rectangle, the bounds of the image.
C8_FirstFrameFull ==
    \A k \in 1..Len(sent) :
        LET s == sent[k]
        IN  (Incremental(s.req) /\ s.lastNil /\ ~s.img.nil) =>
                /\ s.msg.nrects = 1
                /\ Len(s.msg.rects) = 1
                /\ LET r == s.msg.rects[1]
                   IN  Rect(r.x, r.y, r.x + r.w, r.y + r.h) = Bounds(s.img)

\* ---- C9, C10: the comparator

Compared ==
    /\ fnResult # NoCall
    /\ ~fnArgs.oldImg.nil /\ ~fnArgs.newImg.nil
    /\ Bounds(fnArgs.oldImg) = Bounds(fnArgs.newImg)

\* The pixels at which the two images differ.
Differing ==
    {p \in fnArgs.oldImg.px \cup fnArgs.newImg.px :
        At(fnArgs.oldImg, p) # At(fnArgs.newImg, p)}

\* A coordinate on the section grid, or at the image's edge.
OnGrid(v, edge) == v % 64 = 0 \/ v = edge

\* C9: two images of equal bounds that differ at one pixel give one
\* rectangle, which holds that pixel, is at most 64x64 and starts on the
\* section grid.
C9_OnePixelOneRect ==
    (Compared /\ Cardinality(Differing) = 1) =>
        /\ fnResult.panic = ""
        /\ Len(fnResult.rc) = 1
        /\ LET r == fnResult.rc[1]
               b == Bounds(fnArgs.newImg)
           IN  /\ \A p \in Differing : InRect(p, r)
               /\ Dx(r) <= 64 /\ Dy(r) <= 64
               /\ OnGrid(r.x0, b.x0) /\ OnGrid(r.y0, b.y0)

\* Two pixels in the same 64-wide column and 64-tall strip of the image.
SameSection(p, q) ==
    LET b == Bounds(fnArgs.newImg)
    IN  /\ p[1] \div 64 = q[1] \div 64
        /\ (p[2] - b.y0) \div 64 = (q[2] - b.y0) \div 64

\* C10: two images of equal bounds give a list in which no section appears
\* twice and no two rectangles overlap, and differing pixels of one section
\* are held by one rectangle of the list and no other.
C10_NoSectionTwice ==
    Compared =>
        LET rc == fnResult.rc
        IN  /\ fnResult.panic = ""
            /\ \A i, j \in 1..Len(rc) :
                  i # j =>
                     /\ rc[i] # rc[j]
                     /\ \/ rc[i].x1 <= rc[j].x0 \/ rc[j].x1 <= rc[i].x0
                        \/ rc[i].y1 <= rc[j].y0 \/ rc[j].y1 <= rc[i].y0
            /\ \A p, q \in Differing :
                  SameSection(p, q) =>
                     \E i \in 1..Len(rc) :
                        /\ InRect(p, rc[i]) /\ InRect(q, rc[i])
                        /\ \A j \in 1..Len(rc) :
                              (InRect(p, rc[j]) \/ InRect(q, rc[j])) => j = i

\* Two pixels of one section differ, in an image of more than one strip.
C10_Witness ==
    /\ Compared
    /\ Len(fnResult.rc) > 1
    /\ \E p, q \in Differing : p # q /\ SameSection(p, q)

\* ---- C11: a nil handle

\* The request for which the k-th handle was taken has been dealt with: the
\* push worker is back in its loop, or has gone.
Serviced(k) == k < Len(taken) \/ ppc \in {"idle", "exited"}

\* The updates written for the request with parse number n.
UpdatesFor(n) == {i \in 1..Len(sent) : sent[i].req.seq = n}

\* C11: a request that took a nil handle is answered with a FramebufferUpdate
\* of zero rectangles, so that every request that took a handle has exactly
\* one update on the wire once it has been dealt with.
C11_NilHandleAnswered ==
    \A k \in 1..Len(taken) :
        (Running /\ Serviced(k)) =>
            /\ Cardinality(UpdatesFor(taken[k].req)) = 1
            /\ taken[k].nil =>
                  \A i \in UpdatesFor(taken[k].req) : sent[i].msg.nrects = 0

\* ---- C12: non-incremental requests

\* C12: the update written for a non-incremental request and an image that is
\* not nil has one rectangle, the bounds of the image, with encoding Raw,
\* whatever rectangle the request named.
C12_FullBounds ==
    \A k \in 1..Len(sent) :
        LET s == sent[k]
        IN  (~Incremental(s.req) /\ ~s.img.nil) =>
                /\ s.msg.type = 0
                /\ s.msg.nrects = 1
                /\ Len(s.msg.rects) = 1
                /\ LET r == s.msg.rects[1]
                   IN  /\ Rect(r.x, r.y, r.x + r.w, r.y + r.h) = Bounds(s.img)
                       /\ r.encoding = 0

\* An update was written for a request that named a part of the frame.
C12_Witness ==
    \E k \in 1..Len(sent) :
        /\ ~Incremental(sent[k].req) /\ ~sent[k].img.nil
        /\ sent[k].req.X = 1 /\ sent[k].req.Width = 1

\* ---- C13: termination after the peer closes

\* C13: the connection terminates in every execution: the reader gets the
\* I/O error of the closed socket, and the update queue, the close signal and
\* the event stream are closed, whether or not the host feeds frames and
\* however many requests are outstanding.
C13_Terminates ==
    <>(/\ rpc = "done"
       /\ closes.fbupc = 1 /\ closes.closec = 1 /\ closes.event = 1)


\* C14: delivery of a new connection never blocks the acceptor. Every
\* accepted socket gets its serve loop (the acceptor can always take its next
\* step, and is back at Accept only with a serve loop started for each socket
\* so far), a connection accepted while s.conns held 16 is neither in the
\* channel nor seen by the host, and s.conns never holds more than 16.
C14_NonBlockingDelivery ==
    /\ Len(conns) <= ConnsCap
    /\ apc = "go" => ENABLED GoServe /\ serving = 1..(naccept - 1)
    /\ apc = "accept" => ENABLED Accept(TRUE)
    /\ apc # "go" => serving = 1..naccept
    /\ dropped \cap (Range(conns) \cup Range(hostConns)) = {}
    /\ Range(conns) \cup Range(hostConns) \cup dropped =
         1..naccept

\* A connection was dropped on a full channel, its serve loop runs, and the
\* acceptor is accepting again.
C14_Witness ==
    /\ apc = "accept"
    /\ dropped # {}
    /\ dropped \subseteq serving
    /\ Len(conns) = ConnsCap

\* What a client does with the bytes of one pixel: the word they spell in
\* the format's byte order, and the channel (word >> shift) & max.
Bits8(b) == {i \in 0..7 : (b \div Pow2(i)) % 2 = 1}
WordOf(bytes, bigEndian) ==
    LET n == Len(bytes)
    IN  UNION {{8 * (IF bigEndian # 0 THEN n - k ELSE k - 1) + i :
                    i \in Bits8(bytes[k])} : k \in 1..n}
ChannelBits(max) == IF max = 31 THEN 5 ELSE 2
Field(shift, max) == shift..(shift + ChannelBits(max) - 1)
Channel(word, shift, max) == SumPow2(word \cap Field(shift, max), shift)
Unpack(bytes, f) ==
    LET word == WordOf(bytes, f.BigEndian)
    IN  <<Channel(word, f.RedShift, f.RedMax),
          Channel(word, f.GreenShift, f.GreenMax),
          Channel(word, f.BlueShift, f.BlueMax)>>
Quantized(c16, f) ==
    <<c16[1] \div Pow2(16 - ChannelBits(f.RedMax)),
      c16[2] \div Pow2(16 - ChannelBits(f.GreenMax)),
      c16[3] \div Pow2(16 - ChannelBits(f.BlueMax))>>
\* The three channel fields lie within the BPP bits of the pixel and do not
\* overlap.
FieldsFit(f) ==
    LET red == Field(f.RedShift, f.RedMax)
        green == Field(f.GreenShift, f.GreenMax)
        blue == Field(f.BlueShift, f.BlueMax)
    IN  /\ red \cup green \cup blue \subseteq 0..(f.BPP - 1)
        /\ red \cap green = {} /\ red \cap blue = {} /\ green \cap blue = {}
Packed == fnResult # NoCall /\ "c16" \in DOMAIN fnArgs

\* C15 as stated: for every BPP, byte order and format with supported channel
\* maxes, the bytes of a packed pixel unpack to the quantized channels.
C15_RoundTrip ==
    Packed =>
        /\ fnResult.panic = ""
        /\ Len(fnResult.bytes) = fnArgs.f.BPP \div 8
        /\ Unpack(fnResult.bytes, fnArgs.f) = Quantized(fnArgs.c16, fnArgs.f)

\* C15, amended: the round trip holds for the formats whose channel fields
\* lie within the pixel's BPP bits and do not overlap.
C15_RoundTripFitting ==
    Packed /\ FieldsFit(fnArgs.f) =>
        /\ fnResult.panic = ""
        /\ Len(fnResult.bytes) = fnArgs.f.BPP \div 8
        /\ Unpack(fnResult.bytes, fnArgs.f) = Quantized(fnArgs.c16, fnArgs.f)

\* A big-endian 16-bit pixel with mixed channel widths and every channel
\* non-zero was packed.
C15_Witness ==
    /\ Packed /\ FieldsFit(fnArgs.f)
    /\ fnArgs.f.BPP = 16 /\ fnArgs.f.BigEndian = 1
    /\ fnArgs.f.RedMax = 31 /\ fnArgs.f.BlueMax = 3
    /\ fnArgs.c16 = <<43690, 65535, 43690>>
    /\ fnResult.bytes # <<0, 0>>

\* C16: within one FramebufferUpdate the push worker reads one and the same
\* pixel format at the true-colour check and for every rectangle it encodes.
C16_FormatStable ==
    \A i \in 1..Len(used) : used[i] = used[1]

\* C17: once the teardown has closed the socket, the push worker takes no
\* handle from the frame sink and completes no FramebufferUpdate: requests
\* still buffered in the update queue are not serviced.
C17_NoServiceAfterClose ==
    /\ \A k \in 1..Len(taken) : ~taken[k].sockClosed
    /\ \A i \in 1..Len(sent) : ~sent[i].sockClosed

\* C18: once the connection has terminated, the push worker, if one was
\* spawned, eventually exits, whether or not the host sends another frame.
C18_WorkerExits == (rpc = "done") ~> (ppc \in {"none", "exited"})

\* Updates the push worker has begun (a non-nil handle taken) and not yet
\* completed.
InProgress ==
    Cardinality({k \in 1..Len(taken) : ~taken[k].nil}) - Len(sent)

\* C19: "go c.pushFramesLoop()" runs at most once per connection, and only
\* in the handling of the first FramebufferUpdateRequest, never during the
\* handshake; at most one frame encoding is in progress at any moment.
C19_SingleWorker ==
    /\ nworkers <= 1
    /\ nworkers = (IF gotFirstFrame THEN 1 ELSE 0)
    /\ ppc = "none" <=> nworkers = 0
    /\ nworkers > 0 => hs # <<>> /\ hs[Len(hs)] = W(ServerInitBytes(DefaultFormat))
    /\ InProgress \in {0, 1}
    /\ InProgress = 1 <=> ppc \in {"lock", "rects"}

\* One worker is encoding the first frame while a second request and a
\* second frame are queued.
C19_Witness ==
    /\ nworkers = 1 /\ ppc = "rects"
    /\ fbupc # <<>> /\ feed # <<>>
    /\ ncmd = 2

\* The host is between li.Lock() and li.Unlock(); the push worker is between
\* pushImage's li.Lock() and its deferred li.Unlock().
HostMutating == liLock = "host"
WorkerEncoding == Running /\ ppc = "rects"

\* C20: the host never mutates the image while the push worker compares or
\* encodes the handle, and neither gets the lock while the other holds it; the
\* worker holds the lock exactly from the rectangle computation to the flush,
\* and has released it wherever pushImage has ended, by return or by panic.
C20_MutualExclusion ==
    /\ ~(HostMutating /\ WorkerEncoding)
    /\ HostMutating => ~ENABLED PushImageStart
    /\ WorkerEncoding => ~ENABLED HostLock
    /\ liLock = "push" <=> WorkerEncoding

\* The host holds the lock for its mutation while the push worker has taken
\* the handle and waits in li.Lock().
C20_Witness ==
    /\ HostMutating /\ Running
    /\ ppc = "lock" /\ ~li.nil

\* The handler of the i-th command byte has returned.
Returned(i) == cmdlog[i].ok

\* The pixel format whose fields start at offset o of the stream: BPP, depth,
\* big-endian flag, true-colour flag, three 16-bit maxes, three shifts.
FormatAt(o) ==
    [BPP |-> stream[o + 1], Depth |-> stream[o + 2],
     BigEndian |-> stream[o + 3], TrueColour |-> stream[o + 4],
     RedMax |-> 256 * stream[o + 5] + stream[o + 6],
     GreenMax |-> 256 * stream[o + 7] + stream[o + 8],
     BlueMax |-> 256 * stream[o + 9] + stream[o + 10],
     RedShift |-> stream[o + 11], GreenShift |-> stream[o + 12],
     BlueShift |-> stream[o + 13]]

\* Every SetPixelFormat whose handler returned consumed, after its command
\* byte, 3 pad bytes, a record of the given size and 3 more pad bytes: the
\* next command byte is the one right behind them, and the format in force
\* after the last such command is the one its record spells.
SetPixelFormatFramed(record) ==
    \A i \in 1..Len(cmdlog) :
        /\ cmdlog[i].cmd = stream[cmdlog[i].at + 1]
        /\ cmdlog[i].cmd = cmdSetPixelFormat /\ Returned(i) =>
              LET a == cmdlog[i].at
                  end == a + 1 + 3 + record + 3
              IN  /\ end <= Len(stream)
                  /\ i < Len(cmdlog) => cmdlog[i + 1].at = end
                  /\ i = Len(cmdlog) => nread = end
                  /\ (\A j \in (i + 1)..Len(cmdlog) :
                          cmdlog[j].cmd # cmdSetPixelFormat \/ ~Returned(j))
                        => format = FormatAt(a + 1 + 3)

\* C21 as stated: after the command byte 0, handleSetPixelFormat consumes 3
\* pad bytes, a 16-byte pixel-format record and 3 trailing pad bytes, and
\* installs the format; the next byte read is the next command byte.
C21_Framing == SetPixelFormatFramed(16)

\* C21, amended: the handler consumes 3 pad bytes, the 13 bytes of the ten
\* pixel-format fields and 3 trailing pad bytes (19 bytes), and installs the
\* format; the next byte read is the next command byte.
C21_FramingFields == SetPixelFormatFramed(13)

\* A SetPixelFormat naming the 8-bit format was handled and the bytes behind
\* it were read as an update request, which is queued.
C21_Witness ==
    /\ Len(cmdlog) = 2 /\ rpc = "cmd"
    /\ cmdlog[1].cmd = cmdSetPixelFormat
    /\ cmdlog[2] = [cmd |-> cmdFramebufferUpdateRequest, at |-> 20,
                    ok |-> TRUE]
    /\ format.BPP = 8 /\ format.BigEndian = 1
    /\ Len(fbupc) = 1 /\ fbupc[1].Width = 2
=============================================================================
